---- MODULE Spec2Model ----
(***************************************************************************)
(* Model of importlib_resources/abc.py: the Traversable default methods,   *)
(* the TraversableResources bridge, ResourceHandle, ResourceContainer and  *)
(* TraversableReader, driven by one provider (a SimpleReader) whose        *)
(* listings may change between calls.                                      *)
(*                                                                         *)
(* Text (names, packages, modes) is a sequence of one-character strings.   *)
(* Every call is one action; `last` records what the most recent call did: *)
(* its outcome, the provider methods it called and the streams it opened.  *)
(***************************************************************************)
EXTENDS Integers, Sequences, FiniteSets

VARIABLES resources, blob, children, last, seen

vars == <<resources, blob, children, last, seen>>

-----------------------------------------------------------------------------
(* Bounds *)

MaxResources == 2
MaxChildren == 2
MaxContentLen == 1

-----------------------------------------------------------------------------
(* Input domains *)

Bytes == {65}

RECURSIVE SeqsUpTo(_, _)
SeqsUpTo(S, n) ==
    IF n = 0 THEN {<<>>}
    ELSE LET shorter == SeqsUpTo(S, n - 1)
         IN shorter \cup {Append(s, x) : s \in {t \in shorter : Len(t) = n - 1}, x \in S}

ByteStrings == SeqsUpTo(Bytes, MaxContentLen)

\* resource names a provider may list; "s" is also the short name of package "p.s"
ResourceNames == {<<"a">>, <<"s">>}

RootPackage == <<"p">>

ChildPackages == {<<"p", ".", "s">>, <<"p", ".", "t">>}

\* names a caller may ask for: every name above, and one that is never listed
Paths == ResourceNames \cup {<<"s">>, <<"t">>, <<"z">>}

Modes == {<<"r">>, <<"r", "b">>}

Encodings == {"None", "utf-8"}

-----------------------------------------------------------------------------
(* Sequence helpers *)

Range(s) == {s[i] : i \in 1..Len(s)}

RemoveAt(s, i) == SubSeq(s, 1, i - 1) \o SubSeq(s, i + 1, Len(s))

Count(s, x) == Cardinality({i \in 1..Len(s) : s[i] = x})

SameMultiset(s, t) ==
    /\ Len(s) = Len(t)
    /\ \A x \in Range(s) \cup Range(t) : Count(s, x) = Count(t, x)

-----------------------------------------------------------------------------
(* SimpleReader: the provider contract *)

\* str.split(sep): the components between occurrences of sep
RECURSIVE Split(_, _)
Split(s, sep) ==
    IF \A i \in 1..Len(s) : s[i] # sep THEN <<s>>
    ELSE LET i == CHOOSE k \in 1..Len(s) :
                      s[k] = sep /\ \A j \in 1..(k - 1) : s[j] # sep
         IN <<SubSeq(s, 1, i - 1)>> \o Split(SubSeq(s, i + 1, Len(s)), sep)

\* SimpleReader.name: self.package.split('.')[-1]
ReaderName(package) ==
    LET parts == Split(package, ".") IN parts[Len(parts)]

\* the providers a provider can refer to: the root, and its children, which are leaves
Listing(package) == IF package = RootPackage THEN resources ELSE <<>>

Kids(package) == IF package = RootPackage THEN children ELSE <<>>

-----------------------------------------------------------------------------
(* Objects: references, nodes, attribute tables *)

NoRef == [cls |-> "None", package |-> <<>>]

ProviderRef(package) == [cls |-> "SimpleReader", package |-> package]

ContainerRef(package) == [cls |-> "ResourceContainer", package |-> package]

NoNode == [cls |-> "None", reader |-> NoRef, name |-> <<>>]

\* ResourceHandle.__init__
ResourceHandle(reader, name) ==
    [cls |-> "ResourceHandle", reader |-> reader, name |-> name]

\* ResourceContainer.__init__: the only instance attribute is reader
ResourceContainer(reader) ==
    [cls |-> "ResourceContainer", reader |-> reader, name |-> <<>>]

\* a node of a Traversable tree that some other implementation supplies
ExternalNode(cls, name) ==
    [cls |-> cls, reader |-> ProviderRef(RootPackage), name |-> name]

\* the reference a node passes when it passes itself
SelfRef(node) == [cls |-> node.cls, package |-> node.reader.package]

TraversableAttrs ==
    {"iterdir", "read_bytes", "read_text", "is_dir", "is_file",
     "joinpath", "__truediv__", "open"}

SimpleReaderAttrs ==
    {"package", "child_readers", "resources", "open_binary", "name"}

\* what attribute lookup finds on an instance of each class
Attrs(cls) ==
    CASE cls = "ResourceHandle" -> TraversableAttrs \cup {"reader", "name"}
      [] cls = "ResourceContainer" -> TraversableAttrs \cup {"reader"}
      [] cls = "SimpleReader" -> SimpleReaderAttrs
      [] cls \in {"ExternalFile", "ExternalDir", "ExternalMissing"} ->
             TraversableAttrs \cup {"name"}
      [] OTHER -> {}

-----------------------------------------------------------------------------
(* Results of a call *)

NoStream == 0

\* buffer: the index (in the call's streams) of the binary stream a text
\* stream decodes, NoStream for a binary stream
Stream(resource, data, kind, buffer, encoding) ==
    [resource |-> resource, data |-> data, kind |-> kind, buffer |-> buffer,
     encoding |-> encoding, closed |-> FALSE]

Call(fn, arg) == [fn |-> fn, arg |-> arg]

Blank ==
    [outcome |-> "return", exc |-> "", node |-> NoNode, nodes |-> <<>>,
     names |-> <<>>, data |-> <<>>, flag |-> FALSE, stream |-> NoStream,
     calls |-> <<>>, streams |-> <<>>]

Raise(exc, r) ==
    [r EXCEPT !.outcome = "raise", !.exc = exc, !.stream = NoStream]

-----------------------------------------------------------------------------
(* SimpleReader.open_binary, called through a reference *)

OpenBinary(reader, name) ==
    IF "open_binary" \notin Attrs(reader.cls) THEN Raise("AttributeError", Blank)
    ELSE LET called == [Blank EXCEPT !.calls = <<Call("open_binary", name)>>]
         IN IF name \in Range(Listing(reader.package))
            THEN [called EXCEPT
                    !.streams = <<Stream(name, blob[name], "binary", NoStream, "")>>,
                    !.stream = 1]
            ELSE Raise("FileNotFoundError", called)

\* io.TextIOWrapper(*args, **kwargs): the first positional argument is the buffer
TextIOWrapper(args, encoding, r) ==
    IF args = <<>> THEN Raise("TypeError", r)
    ELSE [r EXCEPT
            !.streams = Append(@, Stream(<<>>, <<>>, "text", args[1], encoding)),
            !.stream = Len(r.streams) + 1]

-----------------------------------------------------------------------------
(* ResourceHandle *)

HasB(mode) == "b" \in Range(mode)

HandleOpen(self, mode, args, encoding) ==
    LET stream == OpenBinary(self.reader, self.name)
    IN IF stream.outcome = "raise" THEN stream
       ELSE IF ~HasB(mode) THEN TextIOWrapper(args, encoding, stream)
       ELSE stream

-----------------------------------------------------------------------------
(* ResourceContainer *)

ContainerIterdir(self) ==
    IF "resources" \notin Attrs(self.cls) THEN Raise("AttributeError", Blank)
    ELSE IF "child_readers" \notin Attrs(self.cls) THEN Raise("AttributeError", Blank)
    ELSE LET names == Listing(self.reader.package)
             kids == Kids(self.reader.package)
             files == [i \in 1..Len(names) |-> ResourceHandle(SelfRef(self), names[i])]
             dirs == [i \in 1..Len(kids) |-> ResourceContainer(ProviderRef(kids[i]))]
         IN [Blank EXCEPT !.nodes = files \o dirs]

\* a container whose binary open falls through to its reader
ContainerOpenDelegating(self, mode) ==
    IF HasB(mode) THEN OpenBinary(self.reader, self.name)
    ELSE Raise("IsADirectoryError", Blank)

ContainerOpen(self, mode) == Raise("IsADirectoryError", Blank)

\* next(t for t in <nodes> if t.name == name), with no default
RECURSIVE NextNamed(_, _, _)
NextNamed(nodes, name, r) ==
    IF nodes = <<>> THEN Raise("StopIteration", r)
    ELSE IF "name" \notin Attrs(Head(nodes).cls) THEN Raise("AttributeError", r)
    ELSE IF Head(nodes).name = name THEN [r EXCEPT !.node = Head(nodes)]
    ELSE NextNamed(Tail(nodes), name, r)

ContainerJoinpath(self, name) ==
    LET it == ContainerIterdir(self)
    IN IF it.outcome = "raise" THEN it
       ELSE NextNamed(it.nodes, name, [it EXCEPT !.nodes = <<>>])

-----------------------------------------------------------------------------
(* A Traversable tree supplied by another implementation of the interface: *)
(* the same entries, each node with the interface's methods and a name.    *)

ExternalEntries ==
    [i \in 1..Len(resources) |-> ExternalNode("ExternalFile", resources[i])]
    \o [i \in 1..Len(children) |-> ExternalNode("ExternalDir", ReaderName(children[i]))]

\* Traversable.iterdir, as implemented elsewhere
ExternalIterdir(self) ==
    IF self.cls = "ExternalDir" /\ self.name = RootPackage
    THEN [Blank EXCEPT !.nodes = ExternalEntries, !.calls = <<Call("iterdir", <<>>)>>]
    ELSE [Blank EXCEPT !.calls = <<Call("iterdir", <<>>)>>]

\* Traversable.joinpath, as implemented elsewhere: the child of that name;
\* for a name with no child an implementation either fails or returns a node
\* that is neither a file nor a directory
ExternalJoinpath(self, name) ==
    LET r == [Blank EXCEPT !.calls = <<Call("joinpath", name)>>]
        found == {i \in 1..Len(ExternalEntries) : ExternalEntries[i].name = name}
        first == CHOOSE i \in found : \A j \in found : i <= j
    IN IF found # {} THEN {[r EXCEPT !.node = ExternalEntries[first]]}
       ELSE {Raise("FileNotFoundError", r),
             [r EXCEPT !.node = ExternalNode("ExternalMissing", name)]}

\* decoding ASCII bytes: one character, of the same code point, per byte
Decode(data) == [i \in 1..Len(data) |-> [chr |-> data[i]]]

\* Traversable.open, as implemented elsewhere
ExternalOpen(self, mode, encoding) ==
    IF self.cls = "ExternalDir" THEN Raise("IsADirectoryError", Blank)
    ELSE IF self.cls = "ExternalMissing" THEN Raise("FileNotFoundError", Blank)
    ELSE LET binary == <<Stream(self.name, blob[self.name], "binary", NoStream, "")>>
         IN IF HasB(mode)
            THEN [Blank EXCEPT !.streams = binary, !.stream = 1]
            ELSE [Blank EXCEPT
                    !.streams = Append(binary,
                                       Stream(self.name, Decode(blob[self.name]),
                                              "text", 1, encoding)),
                    !.stream = 2]

-----------------------------------------------------------------------------
(* Traversable: dispatch on the node's class, and the default methods *)

IsFile(node) == node.cls \in {"ResourceHandle", "ExternalFile"}

IsDir(node) == node.cls \in {"ResourceContainer", "ExternalDir"}

Iterdir(self) ==
    IF self.cls = "ResourceContainer" THEN ContainerIterdir(self)
    ELSE ExternalIterdir(self)

Joinpath(self, name) ==
    IF self.cls = "ResourceContainer" THEN {ContainerJoinpath(self, name)}
    ELSE ExternalJoinpath(self, name)

Open(self, mode, args, encoding) ==
    IF self.cls = "ResourceContainer" THEN ContainerOpen(self, mode)
    ELSE IF self.cls = "ResourceHandle" THEN HandleOpen(self, mode, args, encoding)
    ELSE ExternalOpen(self, mode, encoding)

\* closing a stream; a text stream closes the binary stream it decodes
CloseStream(streams, i) ==
    [k \in 1..Len(streams) |->
        IF k = i \/ k = streams[i].buffer
        THEN [streams[k] EXCEPT !.closed = TRUE]
        ELSE streams[k]]

\* with <opened> as strm: return strm.read()
WithRead(opened, readFails) ==
    IF opened.outcome = "raise" THEN opened
    ELSE LET i == opened.stream
             exited == [opened EXCEPT !.streams = CloseStream(@, i),
                                      !.stream = NoStream]
         IN IF readFails THEN Raise("OSError", exited)
            ELSE [exited EXCEPT !.data = opened.streams[i].data]

ReadBytes(self, readFails) ==
    WithRead(Open(self, <<"r", "b">>, <<>>, ""), readFails)

ReadText(self, encoding, readFails) ==
    WithRead(Open(self, <<"r">>, <<>>, encoding), readFails)

-----------------------------------------------------------------------------
(* TraversableResources and TraversableReader *)

\* TraversableReader.files, or the files() of another subclass
Files(reader) ==
    IF reader = "TraversableReader"
    THEN ResourceContainer(ProviderRef(RootPackage))
    ELSE ExternalNode("ExternalDir", RootPackage)

\* results of the second of two chained calls, keeping the first call's trace
Then(first, second) ==
    [second EXCEPT !.calls = first.calls \o @]

OpenResource(reader, resource) ==
    {IF j.outcome = "raise" THEN j
     ELSE Then(j, Open(j.node, <<"r", "b">>, <<>>, "")) :
        j \in Joinpath(Files(reader), resource)}

ResourcePath(reader, resource) == Raise("FileNotFoundError", Blank)

IsResource(reader, path) ==
    {IF j.outcome = "raise" THEN j
     ELSE IF "isfile" \notin Attrs(j.node.cls) THEN Raise("AttributeError", j)
     ELSE [j EXCEPT !.flag = IsFile(j.node)] :
        j \in Joinpath(Files(reader), path)}

\* the names of <nodes>, taken one by one as the generator is consumed
RECURSIVE ItemNames(_, _)
ItemNames(nodes, r) ==
    IF nodes = <<>> THEN r
    ELSE IF "name" \notin Attrs(Head(nodes).cls) THEN Raise("AttributeError", r)
    ELSE ItemNames(Tail(nodes), [r EXCEPT !.names = Append(@, Head(nodes).name)])

Contents(reader) ==
    LET it == Iterdir(Files(reader))
    IN IF it.outcome = "raise" THEN it
       ELSE ItemNames(it.nodes, [it EXCEPT !.nodes = <<>>])

-----------------------------------------------------------------------------
(* The state machine *)

\* the names the provider lists now: resources, then its child readers' names
ChildNames == [i \in 1..Len(children) |-> ReaderName(children[i])]

NamesNow == Range(resources) \cup Range(ChildNames)

\* the nodes a caller can hold
RootContainer == ResourceContainer(ProviderRef(RootPackage))

\* file nodes over the root provider, listed or not.  ResourceHandle leaves
\* iterdir and joinpath abstract; its methods are modelled as any instance of
\* it (of a subclass that supplies those two) runs them.
Handles == {ResourceHandle(ProviderRef(RootPackage), n) : n \in Paths}

Targets ==
    {RootContainer} \cup Handles
    \cup {ExternalNode("ExternalFile", n) : n \in Range(resources)}
    \cup {ExternalNode("ExternalDir", RootPackage)}

Readers == {"TraversableReader", "TraversableResources"}

\* the record of a finished call
Record(op, target, arg, mode, encoding, r) ==
    [op |-> op, target |-> target, arg |-> arg, mode |-> mode,
     encoding |-> encoding, before |-> seen,
     outcome |-> r.outcome, exc |-> r.exc, node |-> r.node, nodes |-> r.nodes,
     names |-> r.names, data |-> r.data, flag |-> r.flag, stream |-> r.stream,
     calls |-> r.calls, streams |-> r.streams]

Mutated(op, arg) == Record(op, "provider", arg, <<>>, "", Blank)

Init ==
    /\ resources = <<>>
    /\ blob = [n \in ResourceNames |-> <<>>]
    /\ children = <<>>
    /\ seen = {}
    /\ last = Record("init", "provider", <<>>, <<>>, "", Blank)

\* the provider gains a resource
AddResource ==
    \E n \in ResourceNames \ Range(resources), c \in ByteStrings :
        /\ Len(resources) < MaxResources
        /\ resources' = Append(resources, n)
        /\ blob' = [blob EXCEPT ![n] = c]
        /\ last' = Mutated("add_resource", n)
        /\ UNCHANGED <<children, seen>>

\* the provider loses a resource
RemoveResource ==
    \E i \in 1..Len(resources) :
        /\ resources' = RemoveAt(resources, i)
        /\ blob' = [blob EXCEPT ![resources[i]] = <<>>]
        /\ last' = Mutated("remove_resource", resources[i])
        /\ UNCHANGED <<children, seen>>

\* the provider gains a child reader
AddChild ==
    \E p \in ChildPackages \ Range(children) :
        /\ Len(children) < MaxChildren
        /\ children' = Append(children, p)
        /\ last' = Mutated("add_child", p)
        /\ UNCHANGED <<resources, blob, seen>>

\* the provider loses a child reader
RemoveChild ==
    \E i \in 1..Len(children) :
        /\ children' = RemoveAt(children, i)
        /\ last' = Mutated("remove_child", children[i])
        /\ UNCHANGED <<resources, blob, seen>>

\* list(ResourceContainer(P).iterdir())
IterdirCall ==
    /\ last' = Record("iterdir", "container", <<>>, <<>>, "",
                      ContainerIterdir(RootContainer))
    /\ seen' = NamesNow
    /\ UNCHANGED <<resources, blob, children>>

\* ResourceContainer(P).joinpath(name)
JoinpathCall ==
    \E name \in Paths :
        /\ last' = Record("joinpath", "container", name, <<>>, "",
                          ContainerJoinpath(RootContainer, name))
        /\ seen' = NamesNow
        /\ UNCHANGED <<resources, blob, children>>

\* ResourceContainer(P).open(mode)
ContainerOpenCall ==
    \E mode \in Modes :
        /\ last' = Record("open", "container", <<>>, mode, "",
                          ContainerOpen(RootContainer, mode))
        /\ UNCHANGED <<resources, blob, children, seen>>

\* ResourceHandle(P, name).open(mode, encoding=encoding)
HandleOpenCall ==
    \E h \in Handles, mode \in Modes, encoding \in Encodings :
        /\ last' = Record("open", "handle", h.name, mode, encoding,
                          HandleOpen(h, mode, <<>>, encoding))
        /\ UNCHANGED <<resources, blob, children, seen>>

Kind(node) ==
    CASE node.cls = "ResourceContainer" -> "container"
      [] node.cls = "ResourceHandle" -> "handle"
      [] OTHER -> "external"

\* node.read_bytes()
ReadBytesCall ==
    \E t \in Targets, readFails \in BOOLEAN :
        /\ last' = Record("read_bytes", Kind(t), t.name, <<"r", "b">>, "",
                          ReadBytes(t, readFails))
        /\ UNCHANGED <<resources, blob, children, seen>>

\* node.read_text(encoding)
ReadTextCall ==
    \E t \in Targets, encoding \in Encodings, readFails \in BOOLEAN :
        /\ last' = Record("read_text", Kind(t), t.name, <<"r">>, encoding,
                          ReadText(t, encoding, readFails))
        /\ UNCHANGED <<resources, blob, children, seen>>

\* reader.open_resource(resource)
OpenResourceCall ==
    \E reader \in Readers, resource \in Paths :
        \E r \in OpenResource(reader, resource) :
            /\ last' = Record("open_resource", reader, resource, <<"r", "b">>, "", r)
            /\ UNCHANGED <<resources, blob, children, seen>>

\* reader.resource_path(resource)
ResourcePathCall ==
    \E reader \in Readers, resource \in Paths :
        /\ last' = Record("resource_path", reader, resource, <<>>, "",
                          ResourcePath(reader, resource))
        /\ UNCHANGED <<resources, blob, children, seen>>

\* reader.is_resource(path)
IsResourceCall ==
    \E reader \in Readers, path \in Paths :
        \E r \in IsResource(reader, path) :
            /\ last' = Record("is_resource", reader, path, <<>>, "", r)
            /\ UNCHANGED <<resources, blob, children, seen>>

\* list(reader.contents())
ContentsCall ==
    \E reader \in Readers :
        /\ last' = Record("contents", reader, <<>>, <<>>, "", Contents(reader))
        /\ UNCHANGED <<resources, blob, children, seen>>

Next ==
    \/ AddResource
    \/ RemoveResource
    \/ AddChild
    \/ RemoveChild
    \/ IterdirCall
    \/ JoinpathCall
    \/ ContainerOpenCall
    \/ HandleOpenCall
    \/ ReadBytesCall
    \/ ReadTextCall
    \/ OpenResourceCall
    \/ ResourcePathCall
    \/ IsResourceCall
    \/ ContentsCall

Spec == Init /\ [][Next]_vars

-----------------------------------------------------------------------------
(* Properties *)

Binary == <<"r", "b">>

Text == <<"r">>

AllClosed(streams) == \A i \in 1..Len(streams) : streams[i].closed

\* the name a caller sees for a node: a directory's is its provider's short name
NodeName(node) ==
    IF node.cls = "ResourceContainer" THEN ReaderName(node.reader.package)
    ELSE node.name

Pairs(nodes) == [i \in 1..Len(nodes) |-> <<NodeName(nodes[i]), IsDir(nodes[i])>>]

ExpectedPairs ==
    [i \in 1..Len(resources) |-> <<resources[i], FALSE>>]
    \o [i \in 1..Len(ChildNames) |-> <<ChildNames[i], TRUE>>]

\* C1: joinpath(n), for n among the provider's resources, returns a file node
\* (is_file, not is_dir) whose open("rb") stream holds the content of
\* open_binary(n) and whose read_bytes() returns that content.
C1_JoinpathResource ==
    (last.op = "joinpath" /\ last.arg \in Range(resources)) =>
        /\ last.outcome = "return"
        /\ IsFile(last.node)
        /\ ~IsDir(last.node)
        /\ LET o == Open(last.node, Binary, <<>>, "")
           IN /\ o.outcome = "return"
              /\ o.stream # NoStream
              /\ o.streams[o.stream].data = blob[last.arg]
        /\ LET b == ReadBytes(last.node, FALSE)
           IN b.outcome = "return" /\ b.data = blob[last.arg]

\* C2: joinpath(C.name), for C among the provider's child readers, returns a
\* directory node (is_dir, not is_file) wrapping a provider whose derived name
\* is C.name.
C2_JoinpathChild ==
    (last.op = "joinpath" /\ last.arg \in Range(ChildNames)) =>
        /\ last.outcome = "return"
        /\ IsDir(last.node)
        /\ ~IsFile(last.node)
        /\ ReaderName(last.node.reader.package) = last.arg

\* C3: joinpath(name), for a name that is neither a resource nor a child
\* reader's name, raises FileNotFoundError and nothing else.
C3_JoinpathMissing ==
    (last.op = "joinpath" /\ last.arg \notin NamesNow) =>
        /\ last.outcome = "raise"
        /\ last.exc = "FileNotFoundError"

\* C4: open() on a directory node raises IsADirectoryError in every mode and
\* for every provider content, without calling the provider and without
\* opening a stream; read_bytes() and read_text() on it fail the same way.
C4_ContainerOpenRaises ==
    (last.target = "container" /\ last.op \in {"open", "read_bytes", "read_text"}) =>
        /\ last.outcome = "raise"
        /\ last.exc = "IsADirectoryError"
        /\ last.calls = <<>>
        /\ last.streams = <<>>

C4_Witness ==
    /\ last.op = "open"
    /\ last.target = "container"
    /\ last.mode = Binary
    /\ resources # <<>>
    /\ children # <<>>

\* C5: read_bytes() and read_text() leave no stream open: every stream the
\* call opened is closed when it returns or raises, and on a file node of a
\* listed resource the call did open a stream.
C5_ReadersReleaseStreams ==
    (last.op \in {"read_bytes", "read_text"}) =>
        /\ AllClosed(last.streams)
        /\ (last.target \in {"handle", "external"} /\ last.arg \in Range(resources))
               => last.streams # <<>>

\* C6: is_resource(path) returns true when path names a file under the root
\* and returns false when it names a sub-package under the root.
C6_IsResource ==
    (last.op = "is_resource") =>
        /\ (last.arg \in Range(resources))
               => (last.outcome = "return" /\ last.flag)
        /\ (last.arg \in Range(ChildNames) \ Range(resources))
               => (last.outcome = "return" /\ ~last.flag)

\* C7: contents() returns exactly the multiset of names of the immediate
\* entries, resources and sub-packages alike.
C7_Contents ==
    (last.op = "contents") =>
        /\ last.outcome = "return"
        /\ SameMultiset(last.names, resources \o ChildNames)

\* C8: iterdir() on the directory node yields a file node per resource, in the
\* provider's order, then a directory node per child reader, in the
\* provider's order.
C8_IterdirOrder ==
    (last.op = "iterdir") =>
        /\ last.outcome = "return"
        /\ Pairs(last.nodes) = ExpectedPairs

\* C9: a joinpath() call is answered from the provider's listing at that
\* call: a name added since the earlier call is found, a name removed since
\* the earlier call is not found (FileNotFoundError).
C9_NoSnapshot ==
    (last.op = "joinpath") =>
        /\ (last.arg \in NamesNow \ last.before)
               => (last.outcome = "return" /\ NodeName(last.node) = last.arg)
        /\ (last.arg \in last.before \ NamesNow)
               => (last.outcome = "raise" /\ last.exc = "FileNotFoundError")

\* C10: open() on a file node calls open_binary(name) first; in binary mode
\* it returns that stream, in text mode it returns a text stream that decodes
\* that same binary stream with the caller's encoding.
C10_HandleOpen ==
    (last.op = "open" /\ last.target = "handle") =>
        /\ last.calls # <<>>
        /\ last.calls[1] = Call("open_binary", last.arg)
        /\ (last.arg \in Range(resources)) =>
              /\ last.outcome = "return"
              /\ last.stream # NoStream
              /\ IF HasB(last.mode)
                 THEN /\ last.streams[last.stream].kind = "binary"
                      /\ last.streams[last.stream].resource = last.arg
                 ELSE /\ last.streams[last.stream].kind = "text"
                      /\ last.streams[last.stream].encoding = last.encoding
                      /\ last.streams[last.stream].buffer # NoStream
                      /\ last.streams[last.streams[last.stream].buffer].resource = last.arg

====
